---- MODULE Spec2Model ----
(***************************************************************************)
(* Model of the page iterator of bunnynet-go (common/pagination.go):       *)
(* PageIterator with Next / Items / Error / Reset / AllItems, driven by    *)
(* an injected page-fetch function.                                        *)
(***************************************************************************)
EXTENDS Integers, Sequences, FiniteSets, TLC

----------------------------------------------------------------------------
(* Bounds of the model *)

\* number of pages a generated fetch function serves before its fallback
MaxPages == 3
\* largest number of items on a generated page
MaxItems == 1
\* Next() calls by the owner followed between two resets (caps the page cursor)
MaxNext == MaxPages + 2
\* items the slice allItems of AllItems can hold: the append that would exceed
\* it fails to allocate and the Go runtime ends the process
MaxAllItems == MaxPages * MaxItems + 3
\* bits of the Go type int in the model (64 in the builds of the library)
IntBits == 12

----------------------------------------------------------------------------
(* Program constants: common/pagination.go:8-17 *)

DefaultPage == 1
DefaultPerPage == 100
MaxPerPage == 1000

\* the range of int, and int arithmetic: a result out of range wraps around
MaxInt == 2 ^ (IntBits - 1) - 1
MinInt == 0 - 2 ^ (IntBits - 1)
WrapInt(x) ==
    IF x > MaxInt THEN x - 2 ^ IntBits
    ELSE IF x < MinInt THEN x + 2 ^ IntBits
    ELSE x

----------------------------------------------------------------------------
(* Values *)

\* the nil *PaginatedResponse
Nil == [nil |-> TRUE]
\* the nil error
NoErr == "nil"
\* errors.New("page out of range") of the test's clientFn
ErrOutOfRange == "page out of range"
\* an error of a transient kind (transport failure of one request)
ErrTransient == "transient"

\* a PaginatedResponse[T] value
PaginatedResponse(items, currentPage, totalItems, hasMoreItems) ==
    [Items |-> items, CurrentPage |-> currentPage,
     TotalItems |-> totalItems, HasMoreItems |-> hasMoreItems]

\* what a fetch function returns: (response, err)
Ok(response) == [response |-> response, err |-> NoErr]
Fail(e) == [response |-> Nil, err |-> e]

\* n items of page p, numbered so that every item of every page is distinct
ItemsOf(p, n) == [j \in 1..n |-> (p - 1) * (MaxItems + 1) + j]

\* mockPages of TestPageIterator
mockPages ==
    << PaginatedResponse(<<1, 2>>, 1, 5, TRUE),
       PaginatedResponse(<<3, 4>>, 2, 5, TRUE),
       PaginatedResponse(<<5>>, 3, 5, FALSE) >>

\* the page every request to test.MockServer is answered with
\* (TestAPIKeyService_ListAll: two items, CurrentPage 1, TotalItems 3, HasMoreItems true)
mockServerPage == PaginatedResponse(<<1, 2>>, 1, 3, TRUE)

\* clientFn of TestPageIterator: pages 1..len(mockPages), an error outside
clientFn == [pages |-> [p \in 1..3 |-> Ok(mockPages[p])], beyond |-> Fail(ErrOutOfRange)]

\* the fetch closure of ListAll against test.MockServer: the same page for every request
mockServerFn == [pages |-> <<>>, beyond |-> Ok(mockServerPage)]

\* the outcomes a generated fetch function can give for page p
Outcomes(p, accurate) ==
    {Fail(ErrOutOfRange)} \cup
    { Ok(PaginatedResponse(ItemsOf(p, n),
                           IF accurate THEN p ELSE 0,
                           IF accurate THEN MaxPages * MaxItems ELSE 0, h)) :
        n \in 0..MaxItems, h \in BOOLEAN }

\* the sequences of outcomes of length n
RECURSIVE OutcomeSeqs(_, _)
OutcomeSeqs(n, accurate) ==
    IF n = 0 THEN {<<>>}
    ELSE { Append(s, o) : s \in OutcomeSeqs(n - 1, accurate), o \in Outcomes(n, accurate) }

\* the fetch functions the iterator is constructed with
Clients ==
    {clientFn, mockServerFn} \cup
    { [pages |-> s, beyond |-> b] :
        s \in UNION { OutcomeSeqs(n, a) : n \in 0..MaxPages, a \in BOOLEAN },
        b \in {Fail(ErrOutOfRange), Ok(mockServerPage)} }

\* the (page, perPage) arguments NewPageIterator is called with: those of
\* TestPageIterator, values below the valid range, and values above page 1
\* and the maximum page size
IteratorArgs == { <<1, 2>>, <<0, 0>>, <<2, MaxPerPage + 1>> }

----------------------------------------------------------------------------
(* Pure functions *)

\* Pagination.WithPage: the page stored for a requested page
WithPage(p) == IF p < 1 THEN DefaultPage ELSE p

\* Pagination.WithPerPage: the perPage stored for a requested perPage
WithPerPage(n) ==
    LET a == IF n < 1 THEN DefaultPerPage ELSE n
    IN  IF a > MaxPerPage THEN MaxPerPage ELSE a

\* i.client(page, perPage) for a deterministic fetch function
Fetch(c, p) == IF p \in 1..Len(c.pages) THEN c.pages[p] ELSE c.beyond

\* NewPageIterator(client, page, perPage): the fields of the new iterator
NewPageIterator(p, n) ==
    [page |-> WithPage(p), perPage |-> WithPerPage(n),
     currentResponse |-> Nil, err |-> NoErr]

\* PageIterator.Next without the err != nil check
PageIteratorNext_NoFreeze(it, out) ==
    IF it.currentResponse # Nil /\ ~it.currentResponse.HasMoreItems
    THEN [it |-> it, ret |-> FALSE, fetched |-> FALSE]
    ELSE IF out.err # NoErr
    THEN [it |-> [it EXCEPT !.err = out.err], ret |-> FALSE, fetched |-> TRUE]
    ELSE [it |-> [it EXCEPT !.currentResponse = out.response, !.page = WrapInt(@ + 1)],
          ret |-> Len(out.response.Items) > 0, fetched |-> TRUE]

\* PageIterator.Next without the check of HasMoreItems of the stored page
PageIteratorNext_NoExhaust(it, out) ==
    IF it.err # NoErr
    THEN [it |-> it, ret |-> FALSE, fetched |-> FALSE]
    ELSE IF out.err # NoErr
    THEN [it |-> [it EXCEPT !.err = out.err], ret |-> FALSE, fetched |-> TRUE]
    ELSE [it |-> [it EXCEPT !.currentResponse = out.response, !.page = WrapInt(@ + 1)],
          ret |-> Len(out.response.Items) > 0, fetched |-> TRUE]

\* PageIterator.Next that advances the cursor only when the page has more items
PageIteratorNext_NoIncOnLast(it, out) ==
    IF it.err # NoErr
    THEN [it |-> it, ret |-> FALSE, fetched |-> FALSE]
    ELSE IF it.currentResponse # Nil /\ ~it.currentResponse.HasMoreItems
    THEN [it |-> it, ret |-> FALSE, fetched |-> FALSE]
    ELSE IF out.err # NoErr
    THEN [it |-> [it EXCEPT !.err = out.err], ret |-> FALSE, fetched |-> TRUE]
    ELSE [it |-> [it EXCEPT !.currentResponse = out.response,
                            !.page = IF out.response.HasMoreItems THEN WrapInt(@ + 1) ELSE @],
          ret |-> Len(out.response.Items) > 0, fetched |-> TRUE]

\* PageIterator.Next that returns HasMoreItems of the page instead of len(Items) > 0
PageIteratorNext_RetHasMore(it, out) ==
    IF it.err # NoErr
    THEN [it |-> it, ret |-> FALSE, fetched |-> FALSE]
    ELSE IF it.currentResponse # Nil /\ ~it.currentResponse.HasMoreItems
    THEN [it |-> it, ret |-> FALSE, fetched |-> FALSE]
    ELSE IF out.err # NoErr
    THEN [it |-> [it EXCEPT !.err = out.err], ret |-> FALSE, fetched |-> TRUE]
    ELSE [it |-> [it EXCEPT !.currentResponse = out.response, !.page = WrapInt(@ + 1)],
          ret |-> out.response.HasMoreItems, fetched |-> TRUE]

\* PageIterator.Next without the increment of the page
PageIteratorNext_NoInc(it, out) ==
    IF it.err # NoErr
    THEN [it |-> it, ret |-> FALSE, fetched |-> FALSE]
    ELSE IF it.currentResponse # Nil /\ ~it.currentResponse.HasMoreItems
    THEN [it |-> it, ret |-> FALSE, fetched |-> FALSE]
    ELSE IF out.err # NoErr
    THEN [it |-> [it EXCEPT !.err = out.err], ret |-> FALSE, fetched |-> TRUE]
    ELSE [it |-> [it EXCEPT !.currentResponse = out.response],
          ret |-> Len(out.response.Items) > 0, fetched |-> TRUE]

\* PageIterator.Next that drops the stored page when the fetch fails
PageIteratorNext_ClearOnFail(it, out) ==
    IF it.err # NoErr
    THEN [it |-> it, ret |-> FALSE, fetched |-> FALSE]
    ELSE IF it.currentResponse # Nil /\ ~it.currentResponse.HasMoreItems
    THEN [it |-> it, ret |-> FALSE, fetched |-> FALSE]
    ELSE IF out.err # NoErr
    THEN [it |-> [it EXCEPT !.err = out.err, !.currentResponse = Nil],
          ret |-> FALSE, fetched |-> TRUE]
    ELSE [it |-> [it EXCEPT !.currentResponse = out.response, !.page = WrapInt(@ + 1)],
          ret |-> Len(out.response.Items) > 0, fetched |-> TRUE]

\* PageIterator.Next on the iterator fields it, where out is what i.client
\* returns if it is invoked: the new fields, the return value, and whether
\* i.client was invoked
PageIteratorNext(it, out) ==
    IF it.err # NoErr
    THEN [it |-> it, ret |-> FALSE, fetched |-> FALSE]
    ELSE IF it.currentResponse # Nil /\ ~it.currentResponse.HasMoreItems
    THEN [it |-> it, ret |-> FALSE, fetched |-> FALSE]
    ELSE IF out.err # NoErr
    THEN [it |-> [it EXCEPT !.err = out.err], ret |-> FALSE, fetched |-> TRUE]
    ELSE [it |-> [it EXCEPT !.currentResponse = out.response, !.page = WrapInt(@ + 1)],
          ret |-> Len(out.response.Items) > 0, fetched |-> TRUE]

\* the early returns of PageIterator.Next without the err != nil check
NextWouldFetch_IgnoreErr(it) ==
    ~(it.currentResponse # Nil /\ ~it.currentResponse.HasMoreItems)

\* the early returns of PageIterator.Next: TRUE when Next goes on to invoke i.client
NextWouldFetch(it) ==
    /\ it.err = NoErr
    /\ ~(it.currentResponse # Nil /\ ~it.currentResponse.HasMoreItems)

\* the rest of PageIterator.Next that leaves the page cursor where it is
NextComplete_NoInc(it, out) ==
    IF out.err # NoErr
    THEN [it |-> [it EXCEPT !.err = out.err], ret |-> FALSE]
    ELSE [it |-> [it EXCEPT !.currentResponse = out.response],
          ret |-> Len(out.response.Items) > 0]

\* the rest of PageIterator.Next once i.client has returned out: the new
\* fields and the return value
NextComplete(it, out) ==
    IF out.err # NoErr
    THEN [it |-> [it EXCEPT !.err = out.err], ret |-> FALSE]
    ELSE [it |-> [it EXCEPT !.currentResponse = out.response, !.page = WrapInt(@ + 1)],
          ret |-> Len(out.response.Items) > 0]

\* PageIterator.Items
PageIteratorItems(resp) == IF resp = Nil THEN <<>> ELSE resp.Items

\* PageIterator.Reset that leaves the stored error
PageIteratorReset_KeepErr(it) ==
    [it EXCEPT !.page = DefaultPage, !.currentResponse = Nil]

\* PageIterator.Reset that leaves the page cursor
PageIteratorReset_KeepPage(it) ==
    [it EXCEPT !.currentResponse = Nil, !.err = NoErr]

\* PageIterator.Reset on the iterator fields it
PageIteratorReset(it) ==
    [it EXCEPT !.page = DefaultPage, !.currentResponse = Nil, !.err = NoErr]

\* the tail of AllItems returning the items collected so far beside the error
AllItemsReturn_Partial(all, e) ==
    [items |-> all, err |-> e]

\* the tail of AllItems: what it returns when its loop has ended
AllItemsReturn(all, e) ==
    IF e # NoErr THEN [items |-> <<>>, err |-> e] ELSE [items |-> all, err |-> NoErr]

\* the loop "for iterator.Next() { ... iterator.Items() ... }" run to its end
\* on the iterator fields it over the deterministic fetch function c: the
\* items seen, the pages requested and the final fields (ended is FALSE
\* when the loop is still running after fuel evaluations of Next())
RECURSIVE ForNext(_, _, _, _, _)
ForNext(c, it, all, requested, fuel) ==
    IF fuel = 0
    THEN [it |-> it, items |-> all, calls |-> requested, ended |-> FALSE]
    ELSE LET r == PageIteratorNext(it, Fetch(c, it.page))
             q == IF r.fetched THEN Append(requested, it.page) ELSE requested
         IN  IF r.ret
             THEN ForNext(c, r.it, all \o PageIteratorItems(r.it.currentResponse),
                          q, fuel - 1)
             ELSE [it |-> r.it, items |-> all, calls |-> q, ended |-> TRUE]

\* k calls of Next() on the iterator fields it over the deterministic fetch
\* function c, whatever they return: the pages requested
RECURSIVE NextTimes(_, _, _, _)
NextTimes(c, it, requested, k) ==
    IF k = 0 THEN requested
    ELSE LET r == PageIteratorNext(it, Fetch(c, it.page))
         IN  NextTimes(c, r.it,
                       IF r.fetched THEN Append(requested, it.page) ELSE requested,
                       k - 1)

----------------------------------------------------------------------------
(* State *)

VARIABLES
    client,           \* PageIterator.client
    page,             \* PageIterator.pagination.Page
    perPage,          \* PageIterator.pagination.PerPage
    currentResponse,  \* PageIterator.currentResponse
    err,              \* PageIterator.err
    pc,               \* "idle", "loop" while AllItems runs its for loop, or
                      \* "oom" when the process has died in append
    allItems,         \* the local allItems of AllItems
    result,           \* what the last AllItems returned
    startPage,        \* the page argument of NewPageIterator
    lastOp,           \* the last method called
    lastRet,          \* what the last Next() returned
    calls,            \* page arguments of the i.client invocations since the last reset
    nNext,            \* Next() invocations since the last reset
    faulted,          \* a fetch failed transiently since the last reset
    resetFrom,        \* the state of the iterator when it was last reset
    conc,             \* the goroutines calling Next() on the iterator: whether
                      \* they serialise their calls with a lock of their own
                      \* (locked), the page each has a fetch in flight for
                      \* (inflight, 0 for none) and who issued each fetch (by)
    cli,              \* the Client and its services: apiKey, BaseURL, UserAgent
                      \* and the baseURL, apiKey, userAgent each service holds
    rot,              \* Client.SetAPIKey in progress: its argument (arg), the
                      \* service it updates next (pos, 0 when none runs) and
                      \* the key of the last SetAPIKey that has returned (settled)
    wire,             \* the request in flight (req) and the page a running
                      \* ListAll requests next (listall, 0 when none runs)
    op                \* the operation in progress or last completed: the
                      \* function or service method, its inputs and its result

vars == << client, page, perPage, currentResponse, err, pc, allItems, result,
           startPage, lastOp, lastRet, calls, nNext, faulted, resetFrom, conc,
           cli, rot, wire, op >>

\* the iterator and its history
iterVars == << client, page, perPage, currentResponse, err, pc, allItems, result,
               startPage, lastOp, lastRet, calls, nNext, faulted, resetFrom >>

\* the client, its key rotation and its requests
keyVars == << cli, rot, wire >>

\* a component that does not exist in the run
Unused == [unused |-> TRUE]

\* no client was constructed
NoClientState == cli = Unused /\ rot = Unused /\ wire = Unused

\* the goroutines that share one iterator
Callers == {1, 2}

\* a single owner: nothing in flight
NoConc == [locked |-> TRUE, inflight |-> [t \in Callers |-> 0], by |-> <<>>]

\* the state outside the iterator, which the methods of the iterator leave alone
extVars == << conc, cli, rot, wire, op >>

\* the mutable fields of the iterator
Fields == [page |-> page, perPage |-> perPage,
           currentResponse |-> currentResponse, err |-> err]

\* the state of the state machine the iterator is in
Status ==
    IF err # NoErr THEN "FAILED"
    ELSE IF currentResponse = Nil THEN "FRESH"
    ELSE IF currentResponse.HasMoreItems THEN "HAS_PAGE"
    ELSE "EXHAUSTED"

NoResult == [items |-> <<>>, err |-> "none"]

\* NewPageIterator(client, page, perPage)
Init ==
    /\ client \in Clients
    /\ \E a \in IteratorArgs :
          LET it == NewPageIterator(a[1], a[2])
          IN  /\ startPage = a[1]
              /\ page = it.page
              /\ perPage = it.perPage
              /\ currentResponse = it.currentResponse
              /\ err = it.err
    /\ pc = "idle"
    /\ allItems = <<>>
    /\ result = NoResult
    /\ lastOp = "NewPageIterator"
    /\ lastRet = FALSE
    /\ calls = <<>>
    /\ nNext = 0
    /\ faulted = FALSE
    /\ resetFrom = "none"
    /\ conc = NoConc
    /\ NoClientState
    /\ op = Unused

\* the outcomes of invoking i.client now: what the fetch function gives for
\* the page, or a failure of this one request
FetchOutcomes == {Fetch(client, page), Fail(ErrTransient)}

\* one invocation of Next() with fetch outcome out: the iterator fields and the history
DoNext(out) ==
    LET r == PageIteratorNext(Fields, out)
    IN  /\ page' = r.it.page
        /\ perPage' = r.it.perPage
        /\ currentResponse' = r.it.currentResponse
        /\ err' = r.it.err
        /\ lastRet' = r.ret
        /\ calls' = IF r.fetched THEN Append(calls, page) ELSE calls
        /\ faulted' = (faulted \/ (r.fetched /\ out = Fail(ErrTransient)))
        /\ nNext' = nNext + 1

\* iterator.Next() called by the owner of the iterator
NextCall ==
    /\ pc = "idle"
    /\ nNext < MaxNext
    /\ \E out \in FetchOutcomes : DoNext(out)
    /\ lastOp' = "Next"
    /\ result' = NoResult
    /\ UNCHANGED << client, pc, allItems, startPage, resetFrom >>
    /\ UNCHANGED extVars

\* the history kept of a reset
DoResetHistory ==
    /\ calls' = <<>>
    /\ nNext' = 0
    /\ faulted' = FALSE
    /\ resetFrom' = IF lastOp = "Reset" THEN resetFrom ELSE Status

\* iterator.Reset() called by the owner of the iterator
ResetCall ==
    /\ pc = "idle"
    /\ LET it == PageIteratorReset(Fields)
       IN  /\ page' = it.page
           /\ perPage' = it.perPage
           /\ currentResponse' = it.currentResponse
           /\ err' = it.err
    /\ DoResetHistory
    /\ lastOp' = "Reset"
    /\ result' = NoResult
    /\ UNCHANGED << client, pc, allItems, startPage, lastRet >>
    /\ UNCHANGED extVars

\* iterator.AllItems() up to the head of its for loop: i.Reset(); var allItems []T
AllItemsCall ==
    /\ pc = "idle"
    /\ LET it == PageIteratorReset(Fields)
       IN  /\ page' = it.page
           /\ perPage' = it.perPage
           /\ currentResponse' = it.currentResponse
           /\ err' = it.err
    /\ DoResetHistory
    /\ allItems' = <<>>
    /\ pc' = "loop"
    /\ lastOp' = "AllItems"
    /\ result' = NoResult
    /\ UNCHANGED << client, startPage, lastRet >>
    /\ UNCHANGED extVars

\* one evaluation of the loop condition i.Next() of AllItems: the body
\* allItems = append(allItems, i.Items()...) when it is true (the process
\* dies when the slice cannot grow), the rest of AllItems up to its return
\* when it is false
AllItemsLoop ==
    /\ pc = "loop"
    /\ \E out \in FetchOutcomes : DoNext(out)
    /\ IF lastRet'
       THEN IF Len(allItems) + Len(PageIteratorItems(currentResponse')) > MaxAllItems
            THEN /\ allItems' = allItems
                 /\ pc' = "oom"
                 /\ result' = result
            ELSE /\ allItems' = allItems \o PageIteratorItems(currentResponse')
                 /\ pc' = "loop"
                 /\ result' = result
       ELSE /\ allItems' = allItems
            /\ pc' = "idle"
            /\ result' = AllItemsReturn(allItems, err')
    /\ UNCHANGED << client, startPage, lastOp, resetFrom >>
    /\ UNCHANGED extVars

Next == NextCall \/ ResetCall \/ AllItemsCall \/ AllItemsLoop

Spec == Init /\ [][Next]_vars

\* the goroutine that called AllItems keeps running its loop
FairSpec == Spec /\ WF_vars(AllItemsLoop)

----------------------------------------------------------------------------
(* Steps and states the properties speak of *)

\* this step is one invocation of Next(), by the owner or by the loop of AllItems
NextStep == nNext' = nNext + 1

\* this step is one invocation of i.client
FetchStep == calls' # calls /\ Len(calls') = Len(calls) + 1

\* this step is Reset(), called by the owner or at the start of AllItems
ResetStep == lastOp' = "Reset" \/ (pc = "idle" /\ pc' = "loop")

\* AllItems has returned and nothing was called since
AllItemsReturned == lastOp = "AllItems" /\ pc = "idle"

\* the page the cursor was at after construction or the last reset
EpochPage == IF resetFrom = "none" THEN WithPage(startPage) ELSE DefaultPage

----------------------------------------------------------------------------
(* C1 *)

\* C1: once a fetch invoked by Next() has failed, every later Next() (until a
\* reset) returns false, does not invoke the fetch function and leaves the
\* stored error as it is.
ErrorFreeze ==
    [][(err # NoErr /\ NextStep) =>
          (lastRet' = FALSE /\ calls' = calls /\ err' = err)]_vars

\* Next() was called on a failed iterator: more Next() calls than fetches
ErrorFreezeWitness ==
    /\ err # NoErr
    /\ lastOp = "Next"
    /\ lastRet = FALSE
    /\ calls # <<>>
    /\ nNext > Len(calls)

----------------------------------------------------------------------------
(* C2 *)

\* the items of pages 1..k of the fetch function c, in page order
RECURSIVE ConcatPages(_, _)
ConcatPages(c, k) ==
    IF k = 0 THEN <<>>
    ELSE ConcatPages(c, k - 1) \o Fetch(c, k).response.Items

\* items is the concatenation of the pages of c from page 1 up to and
\* including the first page whose HasMoreItems is false
IsCompleteList(items, c) ==
    \E k \in 1..MaxNext :
        /\ \A j \in 1..k : Fetch(c, j).err = NoErr
        /\ \A j \in 1..(k - 1) : Fetch(c, j).response.HasMoreItems
        /\ ~Fetch(c, k).response.HasMoreItems
        /\ items = ConcatPages(c, k)

\* C2: when AllItems() returns without error its result is the concatenation
\* of every page from page 1 up to and including the first page whose
\* HasMoreItems is false.
AllItemsNeverTruncated ==
    (AllItemsReturned /\ result.err = NoErr) => IsCompleteList(result.items, client)

----------------------------------------------------------------------------
(* C3 *)

\* C3: if a fetch fails during AllItems(), AllItems() returns that error and
\* no items, whatever was collected before the failure.
AllItemsErrorDiscards ==
    (AllItemsReturned /\ err # NoErr) => result = [items |-> <<>>, err |-> err]

\* AllItems() has returned an error after two successful pages with items
AllItemsErrorDiscardsWitness ==
    /\ AllItemsReturned
    /\ err # NoErr
    /\ Len(calls) >= 3
    /\ allItems # <<>>
    /\ result.items = <<>>

----------------------------------------------------------------------------
(* C4 *)

\* C4: AllItems() eventually returns; a fetch that fails ends the loop in the
\* same step, so the runs that do not return are runs in which every page
\* request is answered successfully.
AllItemsTerminates == (pc = "loop") ~> (pc = "idle")

----------------------------------------------------------------------------
(* C5 *)

\* C5: when the stored page has HasMoreItems false, Next() returns false
\* without invoking the fetch function and leaves cursor, stored page and
\* stored error unchanged.
Exhaustion ==
    [][(currentResponse # Nil /\ ~currentResponse.HasMoreItems /\ NextStep) =>
          (/\ lastRet' = FALSE
           /\ calls' = calls
           /\ page' = page
           /\ currentResponse' = currentResponse
           /\ err' = err)]_vars

\* Next() was called on an exhausted iterator
ExhaustionWitness ==
    /\ Status = "EXHAUSTED"
    /\ lastOp = "Next"
    /\ lastRet = FALSE
    /\ nNext > Len(calls)
    /\ page = EpochPage + Len(calls)

----------------------------------------------------------------------------
(* C6 *)

\* C6: a Next() whose fetch succeeds stores the returned page, increments the
\* cursor by exactly 1, and returns true iff the page has at least one item.
SuccessfulFetch ==
    [][(NextStep /\ FetchStep /\ err' = NoErr) =>
          (/\ currentResponse' = Fetch(client, page).response
           /\ page' = page + 1
           /\ lastRet' = (Len(Fetch(client, page).response.Items) > 0))]_vars

\* Next() has just fetched a last page that has items: true was returned and
\* the cursor is one past the page
SuccessfulFetchWitness ==
    /\ lastOp = "Next"
    /\ err = NoErr
    /\ nNext = Len(calls)
    /\ currentResponse # Nil
    /\ ~currentResponse.HasMoreItems
    /\ currentResponse.Items # <<>>
    /\ lastRet = TRUE
    /\ page = calls[Len(calls)] + 1

----------------------------------------------------------------------------
(* C7 *)

\* the iterator of TestPageIterator: NewPageIterator(clientFn, 1, 2), no
\* request failing for another reason than the page number
TestScenario == client = clientFn /\ startPage = 1 /\ perPage = 2 /\ ~faulted

\* C7: over the three pages of the test, Next() returns true, true, true and
\* then false, Items() after each true call is that page's items, Error() is
\* nil after every call and AllItems() returns the 5 items in page order.
TestIteration ==
    TestScenario =>
        /\ err = NoErr
        /\ lastOp = "Next" => lastRet = (nNext <= 3)
        /\ (lastOp = "Next" /\ lastRet) =>
               PageIteratorItems(currentResponse) = mockPages[nNext].Items
        /\ AllItemsReturned => result = [items |-> <<1, 2, 3, 4, 5>>, err |-> NoErr]

\* the test's run: the iterator was driven to exhaustion with Next(), then
\* AllItems() returned the five items
TestIterationWitness ==
    /\ TestScenario
    /\ AllItemsReturned
    /\ resetFrom = "EXHAUSTED"
    /\ nNext = 4
    /\ result.items = <<1, 2, 3, 4, 5>>

----------------------------------------------------------------------------
(* C8 *)

\* the fetch functions that differ from c only in the item count, CurrentPage
\* or TotalItems of their pages
Siblings(c) ==
    { d \in Clients :
        /\ Len(d.pages) = Len(c.pages)
        /\ d.beyond = c.beyond
        /\ \A p \in 1..Len(c.pages) :
              /\ d.pages[p].err = c.pages[p].err
              /\ c.pages[p].err = NoErr =>
                    d.pages[p].response.HasMoreItems = c.pages[p].response.HasMoreItems }

\* C8: an iteration over a fetch function that differs only in item count,
\* CurrentPage or TotalItems issues the same fetches as this one: after the
\* same number of Next() calls, and in the loop of AllItems().
FetchesDecidedByHasMore ==
    ~faulted =>
        \A d \in Siblings(client) :
            /\ (pc = "idle" /\ lastOp = "Next") =>
                  calls = NextTimes(d, [Fields EXCEPT !.page = EpochPage,
                                                      !.currentResponse = Nil,
                                                      !.err = NoErr],
                                    <<>>, nNext)
            /\ AllItemsReturned =>
                  calls = ForNext(d, PageIteratorReset(Fields), <<>>, <<>>, MaxNext).calls

----------------------------------------------------------------------------
(* C9 *)

\* C9: Reset() sets the cursor to page 1, clears the stored page and error,
\* leaves the fetch function and the page size; the Next() after it fetches.
ResetClears ==
    [][/\ ResetStep =>
            (/\ page' = DefaultPage
             /\ currentResponse' = Nil
             /\ err' = NoErr
             /\ client' = client
             /\ perPage' = perPage)
       /\ (resetFrom # "none" /\ nNext = 0 /\ NextStep) =>
            (FetchStep /\ calls' = <<DefaultPage>>)]_vars

\* a failed iterator constructed at page 2 was reset, and the Next() after
\* the reset has requested page 1
ResetClearsWitness ==
    /\ startPage = 2
    /\ resetFrom = "FAILED"
    /\ lastOp = "Next"
    /\ nNext = 1
    /\ calls = <<DefaultPage>>

----------------------------------------------------------------------------
(* C10 *)

\* iterating a freshly constructed iterator with Next()/Items() to the end
FreshIteration ==
    ForNext(client, NewPageIterator(startPage, perPage), <<>>, <<>>, MaxNext + 1)

\* C10 as stated: Reset() followed by AllItems() yields the same collection
\* as iterating a freshly constructed iterator to the end.
ResetAllItemsEqualsFresh ==
    (AllItemsReturned /\ ~faulted) => result.items = FreshIteration.items

\* C10 amended: for an iterator constructed at page 1, AllItems() ends with
\* the same error state as the fresh iteration, and when that is no error it
\* yields the same collection.
ResetAllItemsEqualsFreshFromPageOne ==
    (AllItemsReturned /\ ~faulted /\ WithPage(startPage) = DefaultPage) =>
        /\ FreshIteration.ended
        /\ result.err = FreshIteration.it.err
        /\ result.err = NoErr => result.items = FreshIteration.items

\* AllItems() has returned a non-empty collection after a partial iteration
\* that had ended in a failure
ResetAllItemsEqualsFreshWitness ==
    /\ AllItemsReturned
    /\ ~faulted
    /\ WithPage(startPage) = DefaultPage
    /\ resetFrom = "FAILED"
    /\ result.err = NoErr
    /\ Len(result.items) >= 2

----------------------------------------------------------------------------
(* Several goroutines calling Next() on one iterator.  PageIterator has no  *)
(* lock: a call is the early returns, then the fetch, then the stores, and  *)
(* the calls of different goroutines interleave between these unless the    *)
(* callers hold a lock of their own around each call.                       *)

\* the fetch functions of the shared iterator
ConcClients ==
    {clientFn, mockServerFn,
     [pages |-> << Ok(PaginatedResponse(<<1>>, 1, 2, TRUE)),
                   Ok(PaginatedResponse(<<>>, 2, 2, TRUE)) >>,
      beyond |-> Fail(ErrOutOfRange)]}

\* NewPageIterator(client, 1, 2) handed to the goroutines
ConcInit ==
    /\ client \in ConcClients
    /\ LET it == NewPageIterator(1, 2)
       IN  /\ startPage = 1
           /\ page = it.page
           /\ perPage = it.perPage
           /\ currentResponse = it.currentResponse
           /\ err = it.err
    /\ pc = "idle"
    /\ allItems = <<>>
    /\ result = NoResult
    /\ lastOp = "NewPageIterator"
    /\ lastRet = FALSE
    /\ calls = <<>>
    /\ nNext = 0
    /\ faulted = FALSE
    /\ resetFrom = "none"
    /\ \E l \in BOOLEAN : conc = [NoConc EXCEPT !.locked = l]
    /\ NoClientState
    /\ op = Unused

\* goroutine t enters Next(): the early returns, or the call of i.client
\* with the cursor it reads
ConcNextBegin(t) ==
    /\ conc.inflight[t] = 0
    /\ conc.locked => \A u \in Callers : conc.inflight[u] = 0
    /\ nNext < MaxNext
    /\ nNext' = nNext + 1
    /\ lastOp' = "Next"
    /\ IF NextWouldFetch(Fields)
       THEN /\ conc' = [conc EXCEPT !.inflight[t] = page, !.by = Append(@, t)]
            /\ calls' = Append(calls, page)
            /\ lastRet' = lastRet
       ELSE /\ lastRet' = FALSE
            /\ UNCHANGED << conc, calls >>
    /\ UNCHANGED << client, page, perPage, currentResponse, err, pc, allItems,
                    result, startPage, faulted, resetFrom >>
    /\ UNCHANGED << keyVars, op >>

\* the fetch of goroutine t returns and its Next() runs to its end.  The
\* stores are unsynchronised: i.pagination.Page++ of two goroutines can lose
\* an increment, leaving the cursor one past the page this goroutine read.
ConcNextEnd(t) ==
    /\ conc.inflight[t] # 0
    /\ \E out \in {Fetch(client, conc.inflight[t]), Fail(ErrTransient)} :
          LET r == NextComplete(Fields, out)
          IN  /\ page' \in {r.it.page} \cup
                           (IF out.err = NoErr /\ r.it.page # page
                            THEN {WrapInt(conc.inflight[t] + 1)} ELSE {})
              /\ currentResponse' = r.it.currentResponse
              /\ err' = r.it.err
              /\ lastRet' = r.ret
              /\ faulted' = (faulted \/ out = Fail(ErrTransient))
    /\ conc' = [conc EXCEPT !.inflight[t] = 0]
    /\ lastOp' = "Next"
    /\ UNCHANGED << client, perPage, pc, allItems, result, startPage, calls,
                    nNext, resetFrom >>
    /\ UNCHANGED << keyVars, op >>

ConcNext == \E t \in Callers : ConcNextBegin(t) \/ ConcNextEnd(t)

ConcSpec == ConcInit /\ [][ConcNext]_vars

----------------------------------------------------------------------------
(* C11 *)

\* the fetches that have returned a page
SuccessfulFetches ==
    Len(calls) - Cardinality({t \in Callers : conc.inflight[t] # 0})
               - (IF err # NoErr THEN 1 ELSE 0)

\* at most one fetch is in flight, no page was requested twice, and the
\* cursor has advanced by one per fetch that returned a page
FetchesAreSequential ==
    /\ Cardinality({t \in Callers : conc.inflight[t] # 0}) <= 1
    /\ \A i, j \in 1..Len(calls) : i # j => calls[i] # calls[j]
    /\ page = WithPage(startPage) + SuccessfulFetches

\* C11 as stated: in every interleaving of the goroutines that call Next()
\* on one iterator no two fetches overlap, no page is fetched twice and the
\* cursor advances by one per successful fetch.
NoOverlappingFetch == FetchesAreSequential

\* C11 amended: the same for goroutines that serialise their Next() calls
\* with a lock of their own (or a single owner).
NoOverlappingFetchWhenSerialised == conc.locked => FetchesAreSequential

\* two goroutines under a lock have each fetched a page, one after the other
NoOverlappingFetchWitness ==
    /\ conc.locked
    /\ \A t \in Callers : conc.inflight[t] = 0
    /\ Len(conc.by) >= 2
    /\ \A t \in Callers : \E i \in 1..Len(conc.by) : conc.by[i] = t
    /\ err = NoErr
    /\ page = 1 + Len(calls)

----------------------------------------------------------------------------
(* Request construction: internal/request.go *)

\* the nil error and the two error types of pullzone.go (package common)
NilError == [kind |-> "nil"]
ClientError(message, cause) == [kind |-> "ClientError", Message |-> message, Err |-> cause]

\* a base URL url.Parse rejects
BadURL == [bad |-> TRUE]
\* DefaultBaseURL, and the URL of a test server
DefaultBaseURL == [scheme |-> "https", host |-> "api.bunny.net", path |-> ""]
ServerURL == [scheme |-> "http", host |-> "127.0.0.1", path |-> ""]
DefaultUserAgent == "bunnynet-go/1.0.0"

\* a nil body, a body json can encode, one it cannot (a channel, a func)
NoBody == [nil |-> TRUE]
SomeBody == [value |-> "options"]
Unencodable == [value |-> "chan"]

\* json.NewEncoder(buf).Encode(body): the text written, or an error
JSONEncode(body) ==
    IF body = Unencodable
    THEN [text |-> NoBody, err |-> [kind |-> "json.UnsupportedTypeError"]]
    ELSE [text |-> [json |-> body.value, newline |-> TRUE], err |-> NilError]

\* the methods net/http accepts, as the services use them
Methods == {"GET", "POST", "PUT", "PATCH", "DELETE"}

\* u.ResolveReference(&url.URL{Path: path}): an absolute path replaces the path of the base
ResolveReference(u, path) ==
    [scheme |-> u.scheme, host |-> u.host, path |-> path, query |-> <<>>]

\* http.Header.Set and http.Header.Get
HeaderSet(h, k, v) == [n \in DOMAIN h \cup {k} |-> IF n = k THEN v ELSE h[n]]
HeaderGet(h, k) == IF k \in DOMAIN h THEN h[k] ELSE ""

\* the body condition of NewRequest without the test of the method
SendsBody_AnyMethod(method, body) == body # NoBody

\* the body condition of NewRequest
SendsBody(method, body) == body # NoBody /\ method \in {"POST", "PUT", "PATCH"}

\* internal.NewRequest: the request, or the error
NewRequest(method, baseURL, path, body, apiKey, userAgent) ==
    IF baseURL = BadURL
    THEN [req |-> Unused, err |-> ClientError("failed to parse base URL", "url.Error")]
    ELSE IF SendsBody(method, body) /\ JSONEncode(body).err # NilError
    THEN [req |-> Unused,
          err |-> ClientError("failed to encode request body", JSONEncode(body).err.kind)]
    ELSE IF method \notin Methods
    THEN [req |-> Unused, err |-> ClientError("failed to create request", "invalid method")]
    ELSE LET h1 == HeaderSet(<<>>, "Accept", "application/json")
             h2 == IF SendsBody(method, body)
                   THEN HeaderSet(h1, "Content-Type", "application/json") ELSE h1
             h3 == IF apiKey # "" THEN HeaderSet(h2, "AccessKey", apiKey) ELSE h2
             h4 == IF userAgent # "" THEN HeaderSet(h3, "User-Agent", userAgent) ELSE h3
         IN  [req |-> [Method |-> method,
                       URL |-> ResolveReference(baseURL, path),
                       Body |-> IF SendsBody(method, body)
                                THEN JSONEncode(body).text ELSE NoBody,
                       Header |-> h4],
              err |-> NilError]

----------------------------------------------------------------------------
(* The client and its services: client.go, resources/*.go *)

\* the services NewClient creates, in the order SetAPIKey updates them
ServiceOrder == << "Country", "APIKey", "DNSZone", "PullZone", "Purge" >>
Services == { ServiceOrder[i] : i \in 1..Len(ServiceOrder) }

\* the path of the list operation of each service (PurgeURL for Purge)
ServicePath(svc) ==
    CASE svc = "Country" -> "/country"
      [] svc = "APIKey" -> "/apikey"
      [] svc = "DNSZone" -> "/dnszone"
      [] svc = "PullZone" -> "/pullzone"
      [] svc = "Purge" -> "/purge"

\* the API keys the client is given
Keys == {"", "initial-api-key", "new-api-key"}

\* NewClient(apiKey, WithBaseURL(baseURL)): NewXService copies the settings into each service
NewClient(apiKey, baseURL) ==
    [apiKey |-> apiKey, BaseURL |-> baseURL, UserAgent |-> DefaultUserAgent,
     services |-> [svc \in Services |->
                     [baseURL |-> baseURL, apiKey |-> apiKey,
                      userAgent |-> DefaultUserAgent]]]

\* Client.SetAPIKey that updates the Country service only
SetAPIKeyOrder_CountryOnly == << "Country" >>

\* the services Client.SetAPIKey updates after c.apiKey, in its order
SetAPIKeyOrder == ServiceOrder

\* XService.SetAPIKey
ServiceSetAPIKey(c, svc, apiKey) == [c EXCEPT !.services[svc].apiKey = apiKey]

\* the request a service builds for an operation without body, having read
\* apiKey from its s.apiKey
ServiceRequest(c, svc, method, apiKey) ==
    NewRequest(method, c.services[svc].baseURL, ServicePath(svc), NoBody,
               apiKey, c.services[svc].userAgent)

\* a string read while it is written: the pointer of one value, the length of the other
TornKey == "torn"

\* no request is in flight
NoReq == [none |-> TRUE]

\* a client the goroutines of the program share
KeyInit ==
    /\ \E k \in Keys :
          /\ cli = NewClient(k, ServerURL)
          /\ rot = [arg |-> k, pos |-> 0, settled |-> k]
    /\ wire = [req |-> NoReq, listall |-> 0, began |-> "none"]
    /\ client = clientFn
    /\ LET it == NewPageIterator(1, 2)
       IN  /\ startPage = 1
           /\ page = it.page
           /\ perPage = it.perPage
           /\ currentResponse = it.currentResponse
           /\ err = it.err
    /\ pc = "idle"
    /\ allItems = <<>>
    /\ result = NoResult
    /\ lastOp = "NewPageIterator"
    /\ lastRet = FALSE
    /\ calls = <<>>
    /\ nNext = 0
    /\ faulted = FALSE
    /\ resetFrom = "none"
    /\ conc = NoConc
    /\ op = Unused

\* Client.SetAPIKey(k) up to its first service: c.apiKey = apiKey
SetAPIKeyCall(k) ==
    /\ rot.pos = 0
    /\ cli' = [cli EXCEPT !.apiKey = k]
    /\ rot' = [arg |-> k, pos |-> 1, settled |-> "pending"]
    /\ UNCHANGED wire

\* Client.SetAPIKey updates its next service, and returns after the last one
SetAPIKeyStep ==
    /\ rot.pos # 0
    /\ cli' = ServiceSetAPIKey(cli, SetAPIKeyOrder[rot.pos], rot.arg)
    /\ rot' = IF rot.pos = Len(SetAPIKeyOrder)
              THEN [rot EXCEPT !.pos = 0, !.settled = rot.arg]
              ELSE [rot EXCEPT !.pos = @ + 1]
    /\ UNCHANGED wire

\* the values a read of s.apiKey can give: the field is not synchronised, so a
\* read that races with the write of SetAPIKey to the same service gives the
\* old value, the new one, or a torn string
ReadAPIKey(svc) ==
    IF rot.pos # 0 /\ SetAPIKeyOrder[rot.pos] = svc
    THEN {cli.services[svc].apiKey, rot.arg, TornKey}
    ELSE {cli.services[svc].apiKey}

\* what is kept of a request built by svc: the request, and the key that was
\* settled when it was built
Built(svc, method, listPage, apiKey) ==
    [svc |-> svc, page |-> listPage, settled |-> rot.settled,
     base |-> cli.BaseURL,
     request |-> ServiceRequest(cli, svc, method, apiKey).req]

\* an operation of service svc builds its request and sends it
RequestCall(svc, method) ==
    /\ wire.req = NoReq
    /\ \E k \in ReadAPIKey(svc) :
          wire' = [wire EXCEPT !.req = Built(svc, method, 0, k)]
    /\ UNCHANGED << cli, rot >>

\* APIKey.ListAll starts: its iterator will request page 1
ListAllCall ==
    /\ wire.listall = 0
    /\ wire' = [wire EXCEPT !.listall = 1, !.began = rot.settled]
    /\ UNCHANGED << cli, rot >>

\* the running ListAll requests its next page through APIKey.List, or ends
ListAllPage ==
    /\ wire.listall # 0
    /\ wire.req = NoReq
    /\ IF wire.listall > MaxPages
       THEN wire' = [wire EXCEPT !.listall = 0, !.began = "none"]
       ELSE \E k \in ReadAPIKey("APIKey") :
               wire' = [wire EXCEPT !.req = Built("APIKey", "GET", wire.listall, k),
                                    !.listall = @ + 1]
    /\ UNCHANGED << cli, rot >>

\* client.BaseURL = u: the exported field of the Client is assigned
AssignBaseURL(u) ==
    /\ cli' = [cli EXCEPT !.BaseURL = u]
    /\ UNCHANGED << rot, wire >>

\* the response to the request in flight arrives
RequestDone ==
    /\ wire.req # NoReq
    /\ wire' = [wire EXCEPT !.req = NoReq]
    /\ UNCHANGED << cli, rot >>

KeyNext ==
    /\ \/ \E k \in Keys : SetAPIKeyCall(k)
       \/ SetAPIKeyStep
       \/ \E svc \in Services, m \in {"GET", "POST", "DELETE"} : RequestCall(svc, m)
       \/ ListAllCall
       \/ ListAllPage
       \/ \E u \in {DefaultBaseURL, ServerURL} : AssignBaseURL(u)
       \/ RequestDone
    /\ UNCHANGED iterVars
    /\ UNCHANGED << conc, op >>

KeySpec == KeyInit /\ [][KeyNext]_vars

----------------------------------------------------------------------------
(* C12 *)

\* C12: a request built after SetAPIKey(k) has returned (and before another
\* SetAPIKey starts) carries AccessKey k, whichever service builds it; and a
\* request in flight is not changed by the steps of SetAPIKey.
RotatedKeyIsUsed ==
    /\ [](wire.req # NoReq /\ wire.req.settled # "pending" =>
             HeaderGet(wire.req.request.Header, "AccessKey") = wire.req.settled)
    /\ [][(wire.req # NoReq /\ rot' # rot) => wire'.req = wire.req]_vars

\* a later page of a ListAll that started under the initial key was built
\* after SetAPIKey("new-api-key") returned, and carries the new key
RotatedKeyIsUsedWitness ==
    /\ wire.req # NoReq
    /\ wire.req.page >= 2
    /\ wire.began = "initial-api-key"
    /\ wire.req.settled = "new-api-key"
    /\ HeaderGet(wire.req.request.Header, "AccessKey") = "new-api-key"
    /\ rot.pos = 0

----------------------------------------------------------------------------
(* Responses and their decoding: internal/request.go, internal/response.go,
   common/errors.go *)

\* a JSON object with the given members, and the other texts a body can hold
Object(members) == [kind |-> "object", fields |-> members, broken |-> FALSE]
NoMembers == [n \in {} |-> ""]
BodyOfKind(k) == [kind |-> k, fields |-> NoMembers, broken |-> FALSE]
\* a body whose Read fails before the end of the text (connection reset)
BrokenBody == [kind |-> "truncated", fields |-> NoMembers, broken |-> TRUE]

\* the error record of the API; its StatusCode member is not part of the
\* record (json:"-"), a server may send one all the same
ErrorBody ==
    Object([n \in {"ErrorKey", "Field", "Message", "StatusCode"} |->
              CASE n = "ErrorKey" -> "pullzone.not_found"
                [] n = "Field" -> "Id"
                [] n = "Message" -> "Not found"
                [] n = "StatusCode" -> 418])
MessageBody == Object([n \in {"Message"} |-> "Server error"])
\* a resource, and the two kinds of page of a list
ValueBody == Object([n \in {"Id", "Key"} |-> IF n = "Id" THEN "12345" ELSE "api-key-1"])
PageBodyMore ==
    Object([n \in {"Items", "HasMoreItems"} |-> IF n = "Items" THEN <<1>> ELSE TRUE])
PageBodyLast ==
    Object([n \in {"Items", "HasMoreItems"} |-> IF n = "Items" THEN <<2>> ELSE FALSE])

\* the bodies a server sends: JSON objects, a JSON array, null, text that is
\* not JSON (an HTML error page), nothing, and a body that breaks off
Bodies ==
    { ErrorBody, MessageBody, ValueBody, PageBodyMore, PageBodyLast,
      BodyOfKind("array"), BodyOfKind("null"), BodyOfKind("text"),
      BodyOfKind("empty"), BrokenBody }

\* the status codes on both sides of every comparison of the code
Statuses == {200, 204, 399, 400, 500}

\* what client.Do gives: an error (cancellation, timeout, no connection), or a response
TransportErrors == {"context canceled", "context deadline exceeded", "connection refused"}
Responses == [StatusCode : Statuses, Body : Bodies]
TransportOutcomes ==
    { [err |-> e, resp |-> Unused] : e \in TransportErrors }
    \cup { [err |-> "nil", resp |-> r] : r \in Responses }

\* member name of a JSON object, or zero when it has none
Member(body, name, zero) ==
    IF name \in DOMAIN body.fields THEN body.fields[name] ELSE zero

\* ErrorResponse, and the error fmt.Errorf makes
ErrorResponse(errorKey, field, message, statusCode) ==
    [kind |-> "ErrorResponse", ErrorKey |-> errorKey, Field |-> field,
     Message |-> message, StatusCode |-> statusCode]
Errorf(format, arg) == [kind |-> "errorString", format |-> format, arg |-> arg]
\* the error of a Read that failed
ReadError == [kind |-> "net.OpError"]

\* json.NewDecoder(resp.Body).Decode(errorResponse) succeeds
DecodesAsErrorResponse(body) == ~body.broken /\ body.kind \in {"object", "null"}

\* common.ParseErrorResponse that takes the status code from the body
ParseErrorResponse_BodyStatus(resp) ==
    IF resp.StatusCode >= 200 /\ resp.StatusCode < 300
    THEN NilError
    ELSE IF ~DecodesAsErrorResponse(resp.Body)
    THEN Errorf("bunnynet API error: status code %d", resp.StatusCode)
    ELSE ErrorResponse(Member(resp.Body, "ErrorKey", ""), Member(resp.Body, "Field", ""),
                       Member(resp.Body, "Message", ""),
                       Member(resp.Body, "StatusCode", resp.StatusCode))

\* common.ParseErrorResponse
ParseErrorResponse(resp) ==
    IF resp.StatusCode >= 200 /\ resp.StatusCode < 300
    THEN NilError
    ELSE IF ~DecodesAsErrorResponse(resp.Body)
    THEN Errorf("bunnynet API error: status code %d", resp.StatusCode)
    ELSE ErrorResponse(Member(resp.Body, "ErrorKey", ""), Member(resp.Body, "Field", ""),
                       Member(resp.Body, "Message", ""), resp.StatusCode)

\* internal.DoRequest without the status check
DoRequest_NoStatusCheck(outcome) ==
    IF outcome.err # "nil"
    THEN [resp |-> Unused, err |-> ClientError("failed to send request", outcome.err)]
    ELSE [resp |-> outcome.resp, err |-> NilError]

\* internal.DoRequest, given what client.Do gives
DoRequest(outcome) ==
    IF outcome.err # "nil"
    THEN [resp |-> Unused, err |-> ClientError("failed to send request", outcome.err)]
    ELSE IF outcome.resp.StatusCode >= 400
    THEN [resp |-> outcome.resp, err |-> ParseErrorResponse(outcome.resp)]
    ELSE [resp |-> outcome.resp, err |-> NilError]

\* the targets of a decode: nil, and a struct with the members it has values for
NilTarget == [type |-> "nil", fields |-> NoMembers]
StructFields == {"Id", "Key"}
ZeroStruct == [type |-> "struct", fields |-> NoMembers]
FilledStruct == [type |-> "struct", fields |-> [n \in {"Id"} |-> "777"]]

\* json.Unmarshal(body, v) for a struct v: the members of the object that the
\* struct has fields for are stored, everything else of v is kept
Unmarshal(body, v) ==
    IF body.kind \in {"text", "empty", "truncated"}
    THEN [v |-> v, err |-> [kind |-> "json.SyntaxError"]]
    ELSE IF body.kind = "array"
    THEN [v |-> v, err |-> [kind |-> "json.UnmarshalTypeError"]]
    ELSE LET known == DOMAIN body.fields \cap StructFields
         IN  [v |-> [v EXCEPT !.fields =
                        [n \in DOMAIN v.fields \cup known |->
                           IF n \in known THEN body.fields[n] ELSE v.fields[n]]],
              err |-> NilError]

\* internal.ParseResponse that checks the status before the target
ParseResponse_StatusFirst(resp, v) ==
    IF resp.StatusCode = 204
    THEN [v |-> v, err |-> NilError]
    ELSE IF resp.StatusCode >= 400
    THEN [v |-> v, err |-> ParseErrorResponse(resp)]
    ELSE IF v = NilTarget
    THEN [v |-> v, err |-> NilError]
    ELSE IF resp.Body.broken
    THEN [v |-> v, err |-> ClientError("failed to read response body", ReadError.kind)]
    ELSE LET u == Unmarshal(resp.Body, v)
         IN  IF u.err # NilError
             THEN [v |-> u.v, err |-> ClientError("failed to parse response body", u.err.kind)]
             ELSE [v |-> u.v, err |-> NilError]

\* internal.ParseResponse: the target after the call, and the error
ParseResponse(resp, v) ==
    IF resp.StatusCode = 204
    THEN [v |-> v, err |-> NilError]
    ELSE IF v = NilTarget
    THEN [v |-> v, err |-> NilError]
    ELSE IF resp.StatusCode >= 400
    THEN [v |-> v, err |-> ParseErrorResponse(resp)]
    ELSE IF resp.Body.broken
    THEN [v |-> v, err |-> ClientError("failed to read response body", ReadError.kind)]
    ELSE LET u == Unmarshal(resp.Body, v)
         IN  IF u.err # NilError
             THEN [v |-> u.v, err |-> ClientError("failed to parse response body", u.err.kind)]
             ELSE [v |-> u.v, err |-> NilError]

\* internal.ParsePaginatedResponse into a zero PaginatedResponse: no status check
ParsePaginatedResponse(resp) ==
    IF resp.Body.broken
    THEN [v |-> Nil, err |-> ClientError("failed to read response body", ReadError.kind)]
    ELSE IF resp.Body.kind \in {"text", "empty", "truncated"}
    THEN [v |-> Nil,
          err |-> ClientError("failed to parse paginated response", "json.SyntaxError")]
    ELSE IF resp.Body.kind = "array"
    THEN [v |-> Nil,
          err |-> ClientError("failed to parse paginated response", "json.UnmarshalTypeError")]
    ELSE [v |-> PaginatedResponse(Member(resp.Body, "Items", <<>>),
                                  Member(resp.Body, "CurrentPage", 0),
                                  Member(resp.Body, "TotalItems", 0),
                                  Member(resp.Body, "HasMoreItems", FALSE)),
          err |-> NilError]

\* io.ReadAll(resp.Body) as DNSZone.Export returns it: the bytes read and the error of the Read
ReadAll(resp) ==
    IF resp.Body.broken
    THEN [v |-> [bytes |-> resp.Body.kind], err |-> ReadError]
    ELSE [v |-> [bytes |-> resp.Body.kind], err |-> NilError]

----------------------------------------------------------------------------
(* The operations of the services: resources/*.go *)

\* strconv.Itoa for n >= 0: the decimal digits of n
DigitChars == << "0", "1", "2", "3", "4", "5", "6", "7", "8", "9" >>
RECURSIVE Itoa(_)
Itoa(n) ==
    IF n < 10 THEN << DigitChars[n + 1] >>
    ELSE Append(Itoa(n \div 10), DigitChars[(n % 10) + 1])

\* a Pagination value
Pagination(p, n) == [Page |-> p, PerPage |-> n]

\* Pagination.ToQueryParams
ToQueryParams(p) ==
    IF p = Nil THEN NoMembers
    ELSE [n \in (IF p.Page > 0 THEN {"page"} ELSE {})
                \cup (IF p.PerPage > 0 THEN {"perPage"} ELSE {}) |->
            IF n = "page" THEN Itoa(p.Page) ELSE Itoa(p.PerPage)]

\* the query of a URL (RawQuery) is the sequence of its key=value pairs, the
\* values escaped; url.QueryEscape and url.QueryUnescape for texts of
\* letters, digits and spaces
QueryEscape(v) == [i \in 1..Len(v) |-> IF v[i] = " " THEN "+" ELSE v[i]]
QueryUnescape(e) == [i \in 1..Len(e) |-> IF e[i] = "+" THEN " " ELSE e[i]]

\* the keys of the query parameters of the list operations, in the order of
\* the strings (the order url.Values.Encode writes them in)
QueryKeys == << "includeCertificate", "page", "perPage", "search" >>

\* req.URL.Query(): url.Values, the values of each key in the order of the query
PairsOf(raw, k) == SelectSeq(raw, LAMBDA pair : pair[1] = k)
URLQuery(raw) ==
    [k \in { raw[i][1] : i \in 1..Len(raw) } |->
        [i \in 1..Len(PairsOf(raw, k)) |-> QueryUnescape(PairsOf(raw, k)[i][2])]]

\* url.Values.Add
ValuesAdd(q, k, v) ==
    [n \in DOMAIN q \cup {k} |->
        IF n = k THEN Append(IF k \in DOMAIN q THEN q[k] ELSE <<>>, v) ELSE q[n]]

\* url.Values.Encode: the pairs sorted by key
RECURSIVE EncodeFrom(_, _)
EncodeFrom(q, i) ==
    IF i > Len(QueryKeys) THEN <<>>
    ELSE (IF QueryKeys[i] \in DOMAIN q
          THEN [j \in 1..Len(q[QueryKeys[i]]) |->
                  << QueryKeys[i], QueryEscape(q[QueryKeys[i]][j]) >>]
          ELSE <<>>) \o EncodeFrom(q, i + 1)
ValuesEncode(q) == EncodeFrom(q, 1)

\* internal.AddQueryParams that sets the query to the converted parameters
AddQueryParams_Replace(req, p) ==
    [req EXCEPT !.URL.query =
        ValuesEncode([k \in DOMAIN ToQueryParams(p) |-> << ToQueryParams(p)[k] >>])]

\* internal.AddQueryParams(req, pagination) for the *Pagination a list
\* operation passes: each converted parameter is added to the parsed query
AddQueryParams(req, p) ==
    LET q == URLQuery(req.URL.query)
        params == ToQueryParams(p)
    IN  [req EXCEPT !.URL.query =
            ValuesEncode([k \in DOMAIN q \cup DOMAIN params |->
                            IF k \in DOMAIN params
                            THEN ValuesAdd(q, k, params[k])[k]
                            ELSE q[k]])]

\* the additional query parameters of PullZone.List
AddSearch(req, search, includeCertificate) ==
    LET q0 == URLQuery(req.URL.query)
        q1 == IF search # <<>> THEN ValuesAdd(q0, "search", search) ELSE q0
        q2 == IF includeCertificate
              THEN ValuesAdd(q1, "includeCertificate", << "t", "r", "u", "e" >>) ELSE q1
    IN  [req EXCEPT !.URL.query = ValuesEncode(q2)]

\* the shapes the operations of the services have: a resource decoded by
\* ParseResponse (Get, and Create with a body), a page decoded by
\* ParsePaginatedResponse (List, and the fetch of Next on a PageIterator over
\* the list), no decoding (Delete), the raw body (DNSZone.Export)
\* PullZone.RemoveHostname has the shape of Delete, with options as body
OpKinds == {"Get", "Create", "List", "Delete", "Export", "RemoveHostname"}
OpMethod(kind) ==
    CASE kind = "Create" -> "POST"
      [] kind \in {"Delete", "RemoveHostname"} -> "DELETE"
      [] OTHER -> "GET"
OpBody(kind) == IF kind \in {"Create", "RemoveHostname"} THEN SomeBody ELSE NoBody
\* the id of the pull zone of the tests, within the int of the model
PullZoneIds == {123}
\* fmt.Sprintf("/pullzone/%d/removeHostname", id): the segments of the path
RemoveHostnamePath(id) == << "pullzone", Itoa(id), "removeHostname" >>
OpPath(kind) ==
    IF kind = "RemoveHostname"
    THEN RemoveHostnamePath(CHOOSE id \in PullZoneIds : TRUE)
    ELSE "/apikey"
IsPaginated(kind) == kind \in {"List", "Next"}

\* no value is returned (nil)
NoValue == [novalue |-> TRUE]

\* no operation was called yet
NoOp ==
    [kind |-> "none", stage |-> "returned", req |-> Unused, resp |-> Unused,
     value |-> NoValue, err |-> NilError, sends |-> 0, decoded |-> FALSE,
     closed |-> FALSE]

\* the request an operation builds
OpRequest(kind, baseURL, apiKey, pagination) ==
    LET r == NewRequest(OpMethod(kind), baseURL, OpPath(kind), OpBody(kind),
                        apiKey, DefaultUserAgent)
    IN  IF r.err = NilError /\ IsPaginated(kind)
        THEN [r EXCEPT !.req = AddQueryParams(r.req, pagination)]
        ELSE r

\* the operation after NewRequest: returned with its error, or ready to send
Started(kind, r) ==
    [kind |-> kind, stage |-> IF r.err = NilError THEN "built" ELSE "returned",
     req |-> r.req, resp |-> Unused, value |-> NoValue, err |-> r.err,
     sends |-> 0, decoded |-> FALSE, closed |-> FALSE]

\* the iterator as the fetch function sees an error: non-nil
IterErr(e) == e.kind

\* the fetch function of the iterator has returned out: the rest of Next
NextReturns(out) ==
    LET r == NextComplete(Fields, out)
    IN  /\ page' = r.it.page
        /\ currentResponse' = r.it.currentResponse
        /\ err' = r.it.err
        /\ lastRet' = r.ret
        /\ faulted' = (faulted \/ out.err # NoErr)

\* the parts of the iterator no step of an operation changes
iterFrame == << client, perPage, pc, allItems, result, startPage, lastOp, resetFrom >>
\* the parts a step of Next changes when its fetch returns
iterCursor == << page, currentResponse, err, lastRet, faulted >>

\* a client whose services point at a test server (or at a base URL that
\* does not parse), and a PageIterator over the list operation
OpInit ==
    /\ op = NoOp
    /\ client = clientFn
    /\ LET it == NewPageIterator(DefaultPage, 2)
       IN  /\ startPage = DefaultPage
           /\ page = it.page
           /\ perPage = it.perPage
           /\ currentResponse = it.currentResponse
           /\ err = it.err
    /\ pc = "idle"
    /\ allItems = <<>>
    /\ result = NoResult
    /\ lastOp = "NewPageIterator"
    /\ lastRet = FALSE
    /\ calls = <<>>
    /\ nNext = 0
    /\ faulted = FALSE
    /\ resetFrom = "none"
    /\ conc = NoConc
    /\ NoClientState

\* a service method is called: it builds its request
OpCall(kind, baseURL) ==
    /\ op.stage = "returned"
    /\ op' = Started(kind, OpRequest(kind, baseURL, "initial-api-key", Nil))
    /\ UNCHANGED << iterFrame, iterCursor, calls, nNext >>

\* Next() is called on the iterator: it returns false at once, or invokes the
\* fetch function, which calls the list operation for the page of the cursor
OpNextCall(baseURL) ==
    /\ op.stage = "returned"
    /\ nNext < MaxNext
    /\ nNext' = nNext + 1
    /\ IF NextWouldFetch(Fields)
       THEN LET o == Started("Next", OpRequest("Next", baseURL, "initial-api-key",
                                               Pagination(WithPage(page), WithPerPage(perPage))))
            IN  /\ op' = o
                /\ calls' = Append(calls, page)
                /\ IF o.stage = "returned"
                   THEN NextReturns(Fail(IterErr(o.err)))
                   ELSE UNCHANGED iterCursor
       ELSE /\ lastRet' = FALSE
            /\ op' = [NoOp EXCEPT !.kind = "Next"]
            /\ UNCHANGED << page, currentResponse, err, faulted, calls >>
    /\ UNCHANGED iterFrame

\* DoRequest: the transport is invoked, and an error or a status >= 400 ends the operation
OpSend ==
    /\ op.stage = "built"
    /\ \E outcome \in TransportOutcomes :
          LET d == DoRequest(outcome)
          IN  /\ op' = [op EXCEPT !.sends = @ + 1, !.resp = d.resp, !.err = d.err,
                                  !.stage = IF d.err = NilError THEN "sent" ELSE "returned"]
              /\ IF op.kind = "Next" /\ d.err # NilError
                 THEN NextReturns(Fail(IterErr(d.err)))
                 ELSE UNCHANGED iterCursor
    /\ UNCHANGED << iterFrame, calls, nNext >>

\* what the operation does with the response, and what it returns
OpResult(kind, resp) ==
    CASE kind \in {"Get", "Create"} ->
            LET r == ParseResponse(resp, ZeroStruct)
            IN  [value |-> IF r.err = NilError THEN r.v ELSE NoValue, err |-> r.err]
      [] IsPaginated(kind) ->
            LET r == ParsePaginatedResponse(resp)
            IN  [value |-> IF r.err = NilError THEN r.v ELSE NoValue, err |-> r.err]
      [] kind \in {"Delete", "RemoveHostname"} -> [value |-> NoValue, err |-> NilError]
      [] kind = "Export" -> [value |-> ReadAll(resp).v, err |-> ReadAll(resp).err]

\* the operation decodes the response and returns
OpParse ==
    /\ op.stage = "sent"
    /\ LET r == OpResult(op.kind, op.resp)
       IN  /\ op' = [op EXCEPT !.stage = "returned", !.value = r.value, !.err = r.err,
                               !.decoded = IsPaginated(op.kind), !.closed = TRUE]
           /\ IF op.kind = "Next"
              THEN NextReturns(IF r.err = NilError THEN Ok(r.value)
                               ELSE Fail(IterErr(r.err)))
              ELSE UNCHANGED iterCursor
    /\ UNCHANGED << iterFrame, calls, nNext >>

OpNext ==
    /\ \/ \E kind \in OpKinds, baseURL \in {ServerURL, BadURL} : OpCall(kind, baseURL)
       \/ \E baseURL \in {ServerURL, BadURL} : OpNextCall(baseURL)
       \/ OpSend
       \/ OpParse
    /\ UNCHANGED << conc, keyVars >>

OpSpec == OpInit /\ [][OpNext]_vars

----------------------------------------------------------------------------
(* C13 - C17 *)

\* the operation has returned after the transport gave a response of status >= 400
ReturnedOnStatusError ==
    /\ op.stage = "returned"
    /\ op.resp # Unused
    /\ op.resp.StatusCode >= 400

\* C13: no operation retries. An operation invokes the transport at most
\* once, and only with no failure behind it; the pages an iteration requests
\* are all different, and once a fetch of the iteration has failed no page
\* is requested any more.
NoRetry ==
    /\ [](op.sends <= 1)
    /\ [][op'.sends > op.sends => op.err = NilError /\ op.sends = 0]_vars
    /\ [](\A i, j \in 1..Len(calls) : i # j => calls[i] # calls[j])
    /\ [][err # NoErr => calls' = calls]_vars

\* Next() was called again after the fetch of a later page failed, and
\* returned without a transport call
NoRetryWitness ==
    /\ op.kind = "Next"
    /\ op.sends = 0
    /\ err # NoErr
    /\ Len(calls) >= 2
    /\ nNext > Len(calls)

\* C14: what an operation returns is nil, an ErrorResponse or a ClientError
OnlyTwoErrorKinds ==
    op.stage = "returned" => op.err.kind \in {"nil", "ErrorResponse", "ClientError"}

\* the text of the error e carries the status code c
ReportsStatus(e, c) == "arg" \in DOMAIN e /\ e.arg = c

\* C15: a status >= 400 with a body that does not decode as an error record
\* gives a ClientError that reports the status code
UndecodableErrorGivesClientError ==
    ReturnedOnStatusError /\ ~DecodesAsErrorResponse(op.resp.Body) =>
        /\ op.err.kind = "ClientError"
        /\ ReportsStatus(op.err, op.resp.StatusCode)

\* C16: a status >= 400 with an error record as body gives an ErrorResponse
\* with the ErrorKey, Field and Message of the body and the status of the
\* response, and no value
ErrorRecordIsReturned ==
    ReturnedOnStatusError /\ op.resp.Body.kind = "object" /\ ~op.resp.Body.broken =>
        /\ op.err = ErrorResponse(Member(op.resp.Body, "ErrorKey", ""),
                                  Member(op.resp.Body, "Field", ""),
                                  Member(op.resp.Body, "Message", ""),
                                  op.resp.StatusCode)
        /\ op.value = NoValue

\* an operation that decodes a resource got status 500 with an error record
\* that names another status, and returned the record with status 500
ErrorRecordIsReturnedWitness ==
    /\ op.kind = "Get"
    /\ ReturnedOnStatusError
    /\ op.resp.StatusCode = 500
    /\ Member(op.resp.Body, "StatusCode", 500) # 500
    /\ op.err.kind = "ErrorResponse"
    /\ op.err.ErrorKey = "pullzone.not_found"
    /\ op.err.StatusCode = 500

\* C17: in a paginated list operation a response of status >= 400 ends the
\* operation with an error in DoRequest: ParsePaginatedResponse is not
\* invoked on it and no PaginatedResponse is returned
StatusErrorBeforePaginatedDecode ==
    IsPaginated(op.kind) /\ op.resp # Unused /\ op.resp.StatusCode >= 400 =>
        /\ op.stage = "returned"
        /\ ~op.decoded
        /\ op.err # NilError
        /\ op.value = NoValue

\* a list operation got status 400 with a body that would decode as a page
StatusErrorBeforePaginatedDecodeWitness ==
    /\ op.kind = "List"
    /\ op.stage = "returned"
    /\ op.resp # Unused
    /\ op.resp.StatusCode = 400
    /\ op.resp.Body = PageBodyMore
    /\ ~op.decoded

----------------------------------------------------------------------------
(* Pagination values and the pages an iterator fetches: common/pagination.go *)

\* the integers the functions are called with: both ends of int, the values
\* around 0 and 1, and the values around DefaultPerPage and MaxPerPage
IntInputs ==
    { MinInt, 0 - 1, 0, 1, 2, DefaultPerPage, MaxPerPage - 1, MaxPerPage,
      MaxPerPage + 1, MaxInt }

\* NewPagination()
NewPagination == Pagination(DefaultPage, DefaultPerPage)

\* a new Pagination, and a PageIterator over the pages of TestPageIterator or
\* over a server that has a next page for every page
PaginationInit ==
    /\ op = [fn |-> "NewPagination", arg |-> 0, out |-> NewPagination]
    /\ client \in {clientFn, mockServerFn}
    /\ LET it == NewPageIterator(DefaultPage, 2)
       IN  /\ startPage = DefaultPage
           /\ page = it.page
           /\ perPage = it.perPage
           /\ currentResponse = it.currentResponse
           /\ err = it.err
    /\ pc = "idle"
    /\ allItems = <<>>
    /\ result = NoResult
    /\ lastOp = "NewPageIterator"
    /\ lastRet = FALSE
    /\ calls = <<>>
    /\ nNext = 0
    /\ faulted = FALSE
    /\ resetFrom = "none"
    /\ conc = NoConc
    /\ NoClientState

\* p.WithPage(n) on the Pagination the program holds
WithPageCall(n) ==
    /\ op' = [fn |-> "WithPage", arg |-> n, out |-> [op.out EXCEPT !.Page = WithPage(n)]]
    /\ UNCHANGED iterVars

\* p.WithPerPage(n) on the Pagination the program holds
WithPerPageCall(n) ==
    /\ op' = [fn |-> "WithPerPage", arg |-> n,
              out |-> [op.out EXCEPT !.PerPage = WithPerPage(n)]]
    /\ UNCHANGED iterVars

\* NewPageIterator(client, p, n) replaces the iterator of the program
NewPageIteratorCall(p, n) ==
    /\ pc = "idle"
    /\ LET it == NewPageIterator(p, n)
       IN  /\ startPage' = p
           /\ page' = it.page
           /\ perPage' = it.perPage
           /\ currentResponse' = it.currentResponse
           /\ err' = it.err
    /\ lastOp' = "NewPageIterator"
    /\ lastRet' = FALSE
    /\ calls' = <<>>
    /\ nNext' = 0
    /\ faulted' = FALSE
    /\ UNCHANGED << client, pc, allItems, result, resetFrom, op >>

PaginationNext ==
    /\ \/ \E n \in IntInputs : WithPageCall(n)
       \/ \E n \in IntInputs : WithPerPageCall(n)
       \/ \E p \in IntInputs, n \in {0, 2, MaxInt} : NewPageIteratorCall(p, n)
       \/ NextCall
    /\ UNCHANGED << conc, keyVars >>

PaginationSpec == PaginationInit /\ [][PaginationNext]_vars

----------------------------------------------------------------------------
(* C19 *)

\* WithPage and WithPerPage clamp their argument, and the Pagination of the
\* program and of its iterator as constructed are in range
ClampingHolds ==
    /\ op.fn = "WithPage" => op.out.Page = (IF op.arg < 1 THEN 1 ELSE op.arg)
    /\ op.fn = "WithPerPage" =>
          op.out.PerPage = (IF op.arg < 1 THEN 100 ELSE IF op.arg > 1000 THEN 1000 ELSE op.arg)
    /\ op.out.Page >= 1
    /\ op.out.PerPage >= 1 /\ op.out.PerPage <= 1000
    /\ perPage >= 1 /\ perPage <= 1000
    /\ calls # <<>> => calls[1] >= 1

\* C19: WithPage(p) yields 1 for p < 1 and p otherwise, WithPerPage(n) yields
\* 100 for n < 1, 1000 for n > 1000 and n otherwise; the Pagination after
\* any sequence of calls, and the arguments of every fetch of a PageIterator,
\* have page >= 1 and 1 <= perPage <= 1000
PaginationInRange ==
    /\ ClampingHolds
    /\ \A i \in 1..Len(calls) : calls[i] >= 1

----------------------------------------------------------------------------
(* ParseResponse and NewRequest as functions of their arguments *)

\* no iterator is used by the program
IdleIterator ==
    /\ client = clientFn
    /\ LET it == NewPageIterator(DefaultPage, 2)
       IN  /\ startPage = DefaultPage
           /\ page = it.page
           /\ perPage = it.perPage
           /\ currentResponse = it.currentResponse
           /\ err = it.err
    /\ pc = "idle"
    /\ allItems = <<>>
    /\ result = NoResult
    /\ lastOp = "NewPageIterator"
    /\ lastRet = FALSE
    /\ calls = <<>>
    /\ nNext = 0
    /\ faulted = FALSE
    /\ resetFrom = "none"

\* the targets ParseResponse is given
Targets == {NilTarget, ZeroStruct, FilledStruct}

\* a response and a target
ParseInit ==
    /\ \E r \in Responses, v \in Targets :
          op = [fn |-> "ParseResponse", resp |-> r, v |-> v, out |-> Unused]
    /\ IdleIterator
    /\ conc = NoConc
    /\ NoClientState

\* ParseResponse(resp, v)
ParseResponseCall ==
    /\ op.out = Unused
    /\ op' = [op EXCEPT !.out = ParseResponse(op.resp, op.v)]
    /\ UNCHANGED << iterVars, conc, keyVars >>

ParseNext == ParseResponseCall

ParseSpec == ParseInit /\ [][ParseNext]_vars

\* C18: for status 204 with any target, and for a nil target with any
\* status, ParseResponse returns nil and the target is as it was
ParseResponseSkips ==
    op.out # Unused /\ (op.resp.StatusCode = 204 \/ op.v = NilTarget) =>
        /\ op.out.err = NilError
        /\ op.out.v = op.v

\* status 500 with a nil target: no error, although the status is >= 400
ParseResponseSkipsWitness ==
    /\ op.out # Unused
    /\ op.resp.StatusCode = 500
    /\ op.resp.Body = ErrorBody
    /\ op.v = NilTarget
    /\ op.out.err = NilError

\* the arguments NewRequest is given
RequestMethods == Methods \cup {"BAD METHOD"}
RequestInit ==
    /\ \E m \in RequestMethods, u \in {ServerURL, DefaultBaseURL, BadURL},
          b \in {NoBody, SomeBody, Unencodable}, k \in {"", "initial-api-key"},
          ua \in {"", DefaultUserAgent} :
          op = [fn |-> "NewRequest", method |-> m, baseURL |-> u, body |-> b,
                apiKey |-> k, userAgent |-> ua, out |-> Unused]
    /\ IdleIterator
    /\ conc = NoConc
    /\ NoClientState

\* NewRequest(method, baseURL, path, body, apiKey, userAgent)
NewRequestCall ==
    /\ op.out = Unused
    /\ op' = [op EXCEPT !.out = NewRequest(op.method, op.baseURL, "/apikey", op.body,
                                           op.apiKey, op.userAgent)]
    /\ UNCHANGED << iterVars, conc, keyVars >>

RequestNext == NewRequestCall

RequestSpec == RequestInit /\ [][RequestNext]_vars

----------------------------------------------------------------------------
(* C21, C30 *)

\* C21: the request of PullZone.RemoveHostname is a DELETE to
\* /pullzone/{id}/removeHostname with Content-Type application/json and the
\* options as its payload
RemoveHostnameSendsOptions ==
    op.kind = "RemoveHostname" /\ op.req # Unused =>
        /\ op.req.Method = "DELETE"
        /\ \E id \in PullZoneIds : op.req.URL.path = RemoveHostnamePath(id)
        /\ HeaderGet(op.req.Header, "Content-Type") = "application/json"
        /\ op.req.Body = JSONEncode(SomeBody).text

\* C30: when an operation has returned, the body of the response it
\* obtained is closed
BodyClosedOnReturn ==
    op.stage = "returned" /\ op.resp # Unused => op.closed

----------------------------------------------------------------------------
(* C22 *)

\* C22: a request of Country.List is sent to the base URL that
\* Client.BaseURL held when the request was built
AssignedBaseURLIsUsed ==
    wire.req # NoReq /\ wire.req.svc = "Country" =>
        /\ wire.req.request.URL.scheme = wire.req.base.scheme
        /\ wire.req.request.URL.host = wire.req.base.host

----------------------------------------------------------------------------
(* The query of a list request: internal.AddQueryParams, PullZone.List *)

\* pairs a query holds at most in the model
MaxQuery == 5

\* the *Pagination values a list operation is given: nil, and values whose
\* fields are in range or not (the fields are exported)
QueryPaginations == {Nil} \cup { Pagination(p, n) : p \in {0, 1, 2}, n \in {0 - 1, DefaultPerPage} }
\* the search terms: none, a word, two words
Searches == { <<>>, << "z" >>, << "a", " ", "b" >> }

\* the request of PullZone.List as NewRequest returns it
QueryInit ==
    /\ op = [fn |-> "NewRequest",
             req |-> NewRequest("GET", ServerURL, "/pullzone", NoBody,
                                "initial-api-key", DefaultUserAgent).req,
             before |-> <<>>, p |-> Nil, search |-> <<>>]
    /\ IdleIterator
    /\ conc = NoConc
    /\ NoClientState

\* internal.AddQueryParams(req, p)
AddQueryParamsCall(p) ==
    /\ Len(op.req.URL.query) + 2 <= MaxQuery
    /\ op' = [fn |-> "AddQueryParams", req |-> AddQueryParams(op.req, p),
              before |-> op.req.URL.query, p |-> p, search |-> <<>>]
    /\ UNCHANGED << iterVars, conc, keyVars >>

\* the search term and includeCertificate are added
AddSearchCall(search, includeCertificate) ==
    /\ Len(op.req.URL.query) + 2 <= MaxQuery
    /\ op' = [fn |-> "AddSearch", req |-> AddSearch(op.req, search, includeCertificate),
              before |-> op.req.URL.query, p |-> Nil, search |-> search]
    /\ UNCHANGED << iterVars, conc, keyVars >>

QueryNext ==
    \/ \E p \in QueryPaginations : AddQueryParamsCall(p)
    \/ \E search \in Searches, c \in BOOLEAN : AddSearchCall(search, c)

QuerySpec == QueryInit /\ [][QueryNext]_vars

\* the number of values of key k in the url.Values q
Count(q, k) == IF k \in DOMAIN q THEN Len(q[k]) ELSE 0

\* every value of the url.Values b is in a, at the same place under the same key
Preserved(b, a) ==
    \A k \in DOMAIN b : k \in DOMAIN a /\ SubSeq(a[k], 1, Len(b[k])) = b[k]

\* key k got the one new value v (emit), or no new value
AddedIf(b, a, k, emit, n) ==
    IF emit
    THEN Count(a, k) = Count(b, k) + 1 /\ a[k][Count(a, k)] = Itoa(n)
    ELSE Count(a, k) = Count(b, k)

\* C23: AddQueryParams keeps every parameter of the query with its value and
\* adds page and perPage when the Pagination is not nil and their value
\* is > 0, and nothing else; the parameters added after it keep them too
QueryIsAdditive ==
    LET b == URLQuery(op.before)
        a == URLQuery(op.req.URL.query)
    IN  /\ op.fn # "NewRequest" => Preserved(b, a)
        /\ op.fn = "AddQueryParams" =>
              /\ AddedIf(b, a, "page", op.p # Nil /\ op.p.Page > 0,
                         IF op.p = Nil THEN 0 ELSE op.p.Page)
              /\ AddedIf(b, a, "perPage", op.p # Nil /\ op.p.PerPage > 0,
                         IF op.p = Nil THEN 0 ELSE op.p.PerPage)
              /\ \A k \in DOMAIN a \ {"page", "perPage"} : Count(a, k) = Count(b, k)
        /\ op.fn = "AddSearch" /\ op.search # <<>> =>
              a["search"][Count(a, "search")] = op.search

\* a request built with pagination and then a search term of two words
\* carries page 2, perPage 100 and the search term
QueryIsAdditiveWitness ==
    /\ op.fn = "AddSearch"
    /\ op.search = << "a", " ", "b" >>
    /\ URLQuery(op.before) = [k \in {"page", "perPage"} |->
                                 IF k = "page" THEN << Itoa(2) >> ELSE << Itoa(DefaultPerPage) >>]
    /\ DOMAIN URLQuery(op.req.URL.query) = {"page", "perPage", "search"}
    /\ URLQuery(op.req.URL.query)["page"] = << Itoa(2) >>
    /\ URLQuery(op.req.URL.query)["perPage"] = << Itoa(DefaultPerPage) >>

----------------------------------------------------------------------------
(* PageInfo: common/pagination.go *)

\* a / b and a % b of Go for b > 0: the quotient is truncated toward zero
\* and the remainder has the sign of a
GoDiv(a, b) == IF a >= 0 THEN a \div b ELSE 0 - ((0 - a) \div b)
GoMod(a, b) == a - b * GoDiv(a, b)

\* a PageInfo value
PageInfo(currentPage, totalItems, hasMoreItems) ==
    [CurrentPage |-> currentPage, TotalItems |-> totalItems, HasMoreItems |-> hasMoreItems]

\* PageInfo.TotalPages without the page for the remainder
TotalPages_Floor(p, n) == IF n <= 0 THEN 0 ELSE GoDiv(p.TotalItems, n)

\* PageInfo.TotalPages
TotalPages(p, n) ==
    IF n <= 0 THEN 0
    ELSE IF GoMod(p.TotalItems, n) > 0
         THEN WrapInt(GoDiv(p.TotalItems, n) + 1)
         ELSE GoDiv(p.TotalItems, n)

\* PageInfo.NextPage
NextPage(p) == IF ~p.HasMoreItems THEN 0 ELSE WrapInt(p.CurrentPage + 1)

\* PageInfo.PreviousPage
PreviousPage(p) == IF p.CurrentPage <= 1 THEN 0 ELSE WrapInt(p.CurrentPage - 1)

\* PageInfo.IsFirstPage that holds for page 1 only
IsFirstPage_One(p) == p.CurrentPage = 1

\* PageInfo.IsFirstPage
IsFirstPage(p) == p.CurrentPage <= 1

\* PageInfo.IsLastPage
IsLastPage(p) == ~p.HasMoreItems

\* the PageInfo values of the model: the fields come from a response, so
\* they are any int; those of TestPageInfo are among them
PageInfos ==
    { PageInfo(c, t, h) : c \in {MinInt, 0 - 1, 0, 1, 2, 3, MaxInt},
                          t \in {MinInt, 0 - 5, 0 - 4, 0 - 1, 0, 1, 24, 25, 26, MaxInt},
                          h \in BOOLEAN }
\* the perPage arguments of TotalPages
PerPageArgs == {MinInt, 0 - 1, 0, 1, 2, 5, 10, MaxInt}

\* a PageInfo taken from a response
PageInfoInit ==
    /\ \E p \in PageInfos : op = [fn |-> "PageInfo", info |-> p, arg |-> 0, out |-> 0]
    /\ IdleIterator
    /\ conc = NoConc
    /\ NoClientState

\* the methods of PageInfo are called; none changes the PageInfo
TotalPagesCall(n) ==
    op' = [op EXCEPT !.fn = "TotalPages", !.arg = n, !.out = TotalPages(op.info, n)]
NextPageCall ==
    op' = [op EXCEPT !.fn = "NextPage", !.arg = 0, !.out = NextPage(op.info)]
PreviousPageCall ==
    op' = [op EXCEPT !.fn = "PreviousPage", !.arg = 0, !.out = PreviousPage(op.info)]
IsFirstPageCall ==
    op' = [op EXCEPT !.fn = "IsFirstPage", !.arg = 0, !.out = IsFirstPage(op.info)]
IsLastPageCall ==
    op' = [op EXCEPT !.fn = "IsLastPage", !.arg = 0, !.out = IsLastPage(op.info)]

PageInfoNext ==
    /\ \/ \E n \in PerPageArgs : TotalPagesCall(n)
       \/ NextPageCall
       \/ PreviousPageCall
       \/ IsFirstPageCall
       \/ IsLastPageCall
    /\ UNCHANGED << iterVars, conc, keyVars >>

PageInfoSpec == PageInfoInit /\ [][PageInfoNext]_vars

\* q is the least integer with q * n >= t
IsCeil(q, t, n) == q * n >= t /\ (q - 1) * n < t

\* C24: TotalPages(perPage) is ceil(TotalItems / perPage) for perPage > 0
\* and 0 for perPage <= 0
TotalPagesIsCeil ==
    op.fn = "TotalPages" =>
        IF op.arg > 0 THEN IsCeil(op.out, op.info.TotalItems, op.arg) ELSE op.out = 0

\* 25 items in pages of 10 are 3 pages
TotalPagesIsCeilWitness ==
    /\ op.fn = "TotalPages"
    /\ op.info.TotalItems = 25
    /\ op.arg = 10
    /\ op.out = 3

\* C25: NextPage() is 0 without more items and CurrentPage + 1 otherwise,
\* PreviousPage() is 0 for CurrentPage <= 1 and CurrentPage - 1 otherwise,
\* IsFirstPage() holds exactly when PreviousPage() is 0 and IsLastPage()
\* exactly when HasMoreItems is false
PageInfoSentinels ==
    /\ op.fn = "NextPage" =>
          op.out = (IF op.info.HasMoreItems THEN WrapInt(op.info.CurrentPage + 1) ELSE 0)
    /\ op.fn = "PreviousPage" =>
          op.out = (IF op.info.CurrentPage <= 1 THEN 0 ELSE op.info.CurrentPage - 1)
    /\ op.fn = "IsFirstPage" => (op.out <=> PreviousPage(op.info) = 0)
    /\ op.fn = "IsLastPage" => (op.out <=> ~op.info.HasMoreItems)

\* a page before the first one: no previous page, and IsFirstPage holds
PageInfoSentinelsWitness ==
    /\ op.fn = "IsFirstPage"
    /\ op.info.CurrentPage = 0
    /\ op.out
    /\ PreviousPage(op.info) = 0

----------------------------------------------------------------------------
(* C26 *)

\* C26: once a Next() since the last reset has returned false, every later
\* Next() before the next reset returns false and does not invoke the fetch
\* function
NextFalseIsSticky ==
    [][(nNext > 0 /\ ~lastRet /\ NextStep) => (~lastRet' /\ calls' = calls)]_vars

----------------------------------------------------------------------------
(* C27 - C29 *)

\* PageInfoFromResponse, which PageIterator.PageInfo applies to the stored page
PageInfoFromResponse(resp) ==
    IF resp = Nil THEN Nil
    ELSE PageInfo(resp.CurrentPage, resp.TotalItems, resp.HasMoreItems)

\* C27: between two resets the first fetch requests the page the iterator
\* started the epoch with, every later fetch the page after the one before
\* it, and the perPage of the iterator does not change
ConsecutivePages ==
    /\ [](calls # <<>> => calls[1] = EpochPage)
    /\ [](\A i \in 1..(Len(calls) - 1) : calls[i + 1] = calls[i] + 1)
    /\ [][perPage' = perPage]_vars

\* a never-reset iterator constructed at page 2 has requested pages 2, 3, 4
ConsecutivePagesWitness ==
    /\ resetFrom = "none"
    /\ startPage = 2
    /\ Len(calls) >= 3
    /\ calls[1] = 2
    /\ calls[3] = 4

\* C28: a Next() whose fetch fails stores the error and changes neither the
\* page cursor nor the stored page: Items() and PageInfo() return what they
\* returned before
FailedFetchKeepsPage ==
    [][(NextStep /\ FetchStep /\ err' # NoErr) =>
          /\ page' = page
          /\ perPage' = perPage
          /\ currentResponse' = currentResponse
          /\ PageIteratorItems(currentResponse') = PageIteratorItems(currentResponse)
          /\ PageInfoFromResponse(currentResponse') = PageInfoFromResponse(currentResponse)]_vars

\* the fetch after a page with items has failed: the page is still there
FailedFetchKeepsPageWitness ==
    /\ lastOp = "Next"
    /\ err # NoErr
    /\ currentResponse # Nil
    /\ Len(PageIteratorItems(currentResponse)) > 0
    /\ PageInfoFromResponse(currentResponse).HasMoreItems
    /\ Len(calls) >= 2
    /\ page = calls[Len(calls)]

\* C29: the first page requested after Reset(), and so by every AllItems(),
\* is page 1; a never-reset iterator starts at the page of the constructor
FirstPageAfterReset ==
    calls # <<>> =>
        calls[1] = (IF resetFrom = "none" THEN WithPage(startPage) ELSE 1)

\* AllItems on an iterator constructed at page 2 has requested page 1 first
FirstPageAfterResetWitness ==
    /\ startPage = 2
    /\ lastOp = "AllItems"
    /\ calls # <<>>
    /\ calls[1] = 1

====
